---- MODULE Spec2Model ----
(***************************************************************************)
(* Graph-based image segmentation (Felzenszwalb-Huttenlocher) as           *)
(* implemented by segment() and gbis() in src/gbis.rs over the PixelGrid    *)
(* adapter of src/gbis/pixel_grid.rs.                                       *)
(*                                                                         *)
(* Numbers.  Every f32 of the program (edge weight, int_diff, k) is held   *)
(* as an integer count of one common unit; for the pixel grid the unit is  *)
(* 1/255, so that the weight abs_diff/255 is the integer abs_diff.  The     *)
(* quotient k / node_count is kept as an exact fraction and compared by     *)
(* cross-multiplication.  For integer-valued f32 inputs of this size the    *)
(* f32 result of every comparison in segment() equals the exact one         *)
(* (rounding is monotone and never crosses an integer); rounding at exact   *)
(* ties of non-representable values is not modelled.  NaN is modelled       *)
(* explicitly on edge weights, the only place the code can meet one while   *)
(* k is an ordinary number.                                                 *)
(***************************************************************************)
EXTENDS Integers, Sequences, FiniteSets, TLC

\* ---------------------------------------------------------------- bounds
MaxNodes  == 2     \* node_bound of a generic graph is in 0..MaxNodes
MaxEdges  == 2     \* a generic graph enumerates at most MaxEdges edges
MaxWeight == 1     \* generic edge weights are NaN or in -1..MaxWeight
MaxK      == 1     \* segment() on a generic graph: k is in 0..MaxK
MaxArea   == 4     \* an image has width * height <= MaxArea
MaxPixel  == 2     \* blurred pixel intensities are in 0..MaxPixel
MaxScale  == 2     \* gbis() on an image: k is in 0..MaxScale
MaxLine   == 5     \* a scanline is an image of one row of 1..MaxLine pixels
MaxLineScale == 3  \* gbis() on a scanline: k is in 1..MaxLineScale

\* ---------------------------------------------------------------- floats
NaN == [nan |-> TRUE, val |-> 0]
Num(v) == [nan |-> FALSE, val |-> v]
Weights == {NaN} \cup {Num(v) : v \in (0 - 1)..MaxWeight}

Max(a, b) == IF a >= b THEN a ELSE b

\* mutant: the weight of the edge is left out
FMaxKeep(a, w) == a

\* f32::max(a, w): the non-NaN operand when the other one is NaN
FMax(a, w) == IF w.nan THEN a ELSE Max(a, w.val)

\* ---------------------------------------------------------------- pixel grid
\* a - b on u32 wraps below zero to 2^32 - (b - a) (a release build; a debug
\* build panics).  The wrapped value is held as Wrapped, which like it lies
\* beyond every coordinate and dimension of an image of the model.
Wrapped == 2147483647

SubU32(a, b) == IF a >= b THEN a - b ELSE Wrapped

PixelCoordinate(x, y) == [x |-> x, y |-> y]

\* NodeIndexable for PixelGrid
node_bound(img) == img.width * img.height

to_index(img, node) == node.y * img.width + node.x

\* mutant: the height is taken for the width
from_indexByHeight(img, i) == PixelCoordinate(i % img.height, i \div img.height)

from_index(img, i) == PixelCoordinate(i % img.width, i \div img.width)

\* Neighbor::apply
apply(neighbor, c) ==
  CASE neighbor = "Down"      -> PixelCoordinate(c.x, c.y + 1)
    [] neighbor = "Right"     -> PixelCoordinate(c.x + 1, c.y)
    [] neighbor = "DownRight" -> PixelCoordinate(c.x + 1, c.y + 1)
    [] neighbor = "DownLeft"  -> PixelCoordinate(SubU32(c.x, 1), c.y + 1)

\* the four pushes of edge_references for the pixel (x, y), in code order
HasRight(img, x, y) == x < SubU32(img.width, 1)

HasDown(img, x, y) == y < SubU32(img.height, 1)

HasDownRight(img, x, y) == x < SubU32(img.width, 1) /\ y < SubU32(img.height, 1)

\* mutant: the first column is not excluded
HasDownLeftUnguarded(img, x, y) == y < SubU32(img.height, 1)

HasDownLeft(img, x, y) == x > 0 /\ y < SubU32(img.height, 1)

Edge(base, neighbor) == [base |-> base, neighbor |-> neighbor]

PixelEdges(img, x, y) ==
  LET base == PixelCoordinate(x, y) IN
     (IF HasRight(img, x, y) THEN <<Edge(base, "Right")>> ELSE <<>>)
  \o (IF HasDown(img, x, y) THEN <<Edge(base, "Down")>> ELSE <<>>)
  \o (IF HasDownRight(img, x, y) THEN <<Edge(base, "DownRight")>> ELSE <<>>)
  \o (IF HasDownLeft(img, x, y) THEN <<Edge(base, "DownLeft")>> ELSE <<>>)

\* self.0.pixels() yields the pixels row by row, x fastest; i is the number
\* of pixels already visited
RECURSIVE EdgesFrom(_, _)
EdgesFrom(img, i) ==
  IF i >= img.width * img.height THEN <<>>
  ELSE PixelEdges(img, i % img.width, i \div img.width) \o EdgesFrom(img, i + 1)

edge_references(img) == EdgesFrom(img, 0)

AbsDiff(a, b) == IF a >= b THEN a - b ELSE b - a

InImage(img, c) == c.x < img.width /\ c.y < img.height

\* get_pixel panics on a coordinate outside the image
EdgeRefPanics(img, e) ==
  ~(InImage(img, e.base) /\ InImage(img, apply(e.neighbor, e.base)))

\* EdgeRef::new: abs_diff of the two intensities over u8::MAX, in units of
\* 1/255
EdgeWeight(img, e) ==
  LET target == apply(e.neighbor, e.base) IN
  Num(AbsDiff(img.pixels[to_index(img, e.base)], img.pixels[to_index(img, target)]))

\* the graph segment() sees through GraphBase/NodeIndexable/IntoEdgeReferences:
\* node_bound and the enumerated edges with their endpoints as dense indices
GraphEdge(img, e) ==
  [source |-> to_index(img, e.base),
   target |-> to_index(img, apply(e.neighbor, e.base)),
   weight |-> EdgeWeight(img, e)]

PixelGrid(img) ==
  LET refs == edge_references(img) IN
  [node_bound |-> node_bound(img),
   edges |-> [j \in 1..Len(refs) |-> GraphEdge(img, refs[j])]]

\* ---------------------------------------------------------------- generic graphs
\* a graph whose NodeId is the dense index itself; an edge joins two
\* different nodes, in either direction, and edges may repeat
Edges(n) ==
  {e \in [source : 0..(n - 1), target : 0..(n - 1), weight : Weights] :
     e.source # e.target}

SeqsUpTo(S, m) == UNION {[1..l -> S] : l \in 0..m}

Graphs ==
  UNION {{[node_bound |-> n, edges |-> es] : es \in SeqsUpTo(Edges(n), MaxEdges)}
         : n \in 0..MaxNodes}

HasNaN(es) == \E j \in 1..Len(es) : es[j].weight.nan

\* ---------------------------------------------------------------- segment()
Component(d, c) == [int_diff |-> d, node_count |-> c]

Here(c) == [tag |-> "Here", component |-> c]

There(i) == [tag |-> "There", idx |-> i]

\* mutant: a fresh component counts no node
InitialSlotEmpty == Here(Component(0, 0))

\* vec![ComponentSlot::Here(Component { int_diff: 0.0, node_count: 1 }); n]
InitialSlot == Here(Component(0, 1))

InitialSlots(n) == [i \in 0..(n - 1) |-> InitialSlot]

\* get_component reaches no root: the index leaves the array (panic) or the
\* forward references run in a cycle (the loop never breaks)
NoRoot == 0 - 1

RECURSIVE Walk(_, _, _)
Walk(slots, idx, fuel) ==
  IF idx \notin DOMAIN slots THEN NoRoot
  ELSE IF slots[idx].tag = "Here" THEN idx
  ELSE IF fuel = 0 THEN NoRoot
  ELSE Walk(slots, slots[idx].idx, fuel - 1)

\* the root index get_component returns; a chain over distinct slots has
\* fewer links than there are slots
get_component(slots, idx) == Walk(slots, idx, Cardinality(DOMAIN slots))

\* partial_cmp on two weights is None exactly when one of them is NaN, and
\* the sort compares every element of a slice of two or more elements at
\* least once; a slice of fewer than two elements is returned uncompared
SortPanics(es) == Len(es) >= 2 /\ HasNaN(es)

\* mutant: an edge also goes in front of its equals
LessOrEqual(a, b) == a.weight.val <= b.weight.val

Less(a, b) == a.weight.val < b.weight.val

\* sort_by is a stable sort: e goes behind every element that is not greater
RECURSIVE InsertTail(_, _)
InsertTail(s, e) ==
  IF s = <<>> THEN <<e>>
  ELSE IF Less(e, s[Len(s)])
       THEN Append(InsertTail(SubSeq(s, 1, Len(s) - 1), e), s[Len(s)])
       ELSE Append(s, e)

RECURSIVE sort_by(_)
sort_by(es) ==
  IF es = <<>> THEN <<>>
  ELSE InsertTail(sort_by(SubSeq(es, 1, Len(es) - 1)), es[Len(es)])

\* c.int_diff + k / (c.node_count as f32), as the fraction num / den
Tau(c, kk) == [num |-> c.int_diff * c.node_count + kk, den |-> c.node_count]

\* mutant: only the threshold of the first component is taken
mintFirst(c1, c2, kk) == Tau(c1, kk)

\* f32::min of the two thresholds
mint(c1, c2, kk) ==
  LET t1 == Tau(c1, kk)
      t2 == Tau(c2, kk)
  IN IF t1.num * t2.den <= t2.num * t1.den THEN t1 ELSE t2

\* mutant: an edge that equals the threshold is refused
ExceedsOrEqual(w, m) == ~w.nan /\ w.val * m.den >= m.num

\* mutant: the comparison is turned around
ExceedsInverted(w, m) == ~w.nan /\ w.val * m.den < m.num

\* *edge.weight() > mint; every comparison with NaN is false
Exceeds(w, m) == ~w.nan /\ w.val * m.den > m.num

\* mutant: the absorbed component counts as one node
new_componentOneMore(c1, c2, w) ==
  Component(FMax(Max(c1.int_diff, c2.int_diff), w), c1.node_count + 1)

new_component(c1, c2, w) ==
  Component(FMax(Max(c1.int_diff, c2.int_diff), w), c1.node_count + c2.node_count)

\* mutant: the roots are not compared
SameRootIgnored(slots, e) == FALSE

SameRoot(slots, e) == get_component(slots, e.source) = get_component(slots, e.target)

Resolves(slots, e) ==
  get_component(slots, e.source) # NoRoot /\ get_component(slots, e.target) # NoRoot

OverThreshold(slots, e, kk) ==
  LET c1 == slots[get_component(slots, e.source)].component
      c2 == slots[get_component(slots, e.target)].component
  IN Exceeds(e.weight, mint(c1, c2, kk))

\* mutant: the absorbed root is not forwarded
MergeSlotsNoForward(slots, e) ==
  LET c1_idx == get_component(slots, e.source)
      c2_idx == get_component(slots, e.target)
      c1 == slots[c1_idx].component
      c2 == slots[c2_idx].component
  IN [slots EXCEPT ![c1_idx] = Here(new_component(c1, c2, e.weight))]

\* mutant: c1 is merged into c2
MergeSlotsAtTarget(slots, e) ==
  LET c1_idx == get_component(slots, e.source)
      c2_idx == get_component(slots, e.target)
      c1 == slots[c1_idx].component
      c2 == slots[c2_idx].component
  IN [[slots EXCEPT ![c2_idx] = Here(new_component(c1, c2, e.weight))]
        EXCEPT ![c1_idx] = There(c2_idx)]

\* merge c2 into c1
MergeSlots(slots, e) ==
  LET c1_idx == get_component(slots, e.source)
      c2_idx == get_component(slots, e.target)
      c1 == slots[c1_idx].component
      c2 == slots[c2_idx].component
  IN [[slots EXCEPT ![c1_idx] = Here(new_component(c1, c2, e.weight))]
        EXCEPT ![c2_idx] = There(c1_idx)]

\* one iteration of `for edge in queue`
LoopBody(slots, e, kk) ==
  IF ~Resolves(slots, e) THEN slots
  ELSE IF SameRoot(slots, e) THEN slots
  ELSE IF OverThreshold(slots, e, kk) THEN slots
  ELSE MergeSlots(slots, e)

\* the slots after the first j edges of q
RECURSIVE RunLoop(_, _, _, _)
RunLoop(slots, q, j, kk) ==
  IF j = 0 THEN slots
  ELSE LoopBody(RunLoop(slots, q, j - 1, kk), q[j], kk)

\* mutant: the slots are visited from the last to the first
RECURSIVE RemainingRev(_, _)
RemainingRev(slots, i) ==
  IF i \notin DOMAIN slots THEN <<>>
  ELSE RemainingRev(slots, i + 1) \o (IF slots[i].tag = "Here" THEN <<i>> ELSE <<>>)

\* the filter_map of the gathering pass: the indices i_src of the slots that
\* are still Here, in the order components.iter().enumerate() visits them
RECURSIVE Remaining(_, _)
Remaining(slots, i) ==
  IF i \notin DOMAIN slots THEN <<>>
  ELSE (IF slots[i].tag = "Here" THEN <<i>> ELSE <<>>) \o Remaining(slots, i + 1)

\* mutant: the index of the first enumerate() is taken for that of the second
DstIndexSrc(rem, pos) == rem[pos]

\* the second enumerate(): the index i_dst of the pos-th remaining slot
DstIndex(rem, pos) == pos - 1

\* Option::None in component_map
None == 0 - 1

component_map(slots) ==
  LET rem == Remaining(slots, 0) IN
  [i \in DOMAIN slots |->
     IF \E pos \in 1..Len(rem) : rem[pos] = i
     THEN DstIndex(rem, CHOOSE pos \in 1..Len(rem) : rem[pos] = i)
     ELSE None]

out_components(slots) ==
  LET rem == Remaining(slots, 0) IN
  [d \in 0..(Len(rem) - 1) |-> slots[rem[d + 1]].component]

out_node_components(slots, n) ==
  [node_idx \in 0..(n - 1) |-> component_map(slots)[get_component(slots, node_idx)]]

\* get_component fails or unwrap() meets None
GatherPanics(slots, n) ==
  \E node_idx \in 0..(n - 1) :
     \/ get_component(slots, node_idx) = NoRoot
     \/ component_map(slots)[get_component(slots, node_idx)] = None

Segmentation(slots, n) ==
  [node_components |-> out_node_components(slots, n),
   components |-> out_components(slots)]

\* segment(graph, k) as a function of its arguments, for a sort that succeeds
segment(g, kk) ==
  LET q == sort_by(g.edges) IN
  Segmentation(RunLoop(InitialSlots(g.node_bound), q, Len(q), kk), g.node_bound)

\* ---------------------------------------------------------------- gbis()
\* the coordinate lists after the first i entries of node_components
RECURSIVE Regroup(_, _, _)
Regroup(img, seg, i) ==
  IF i = 0 THEN [c \in DOMAIN seg.components |-> <<>>]
  ELSE [Regroup(img, seg, i - 1)
          EXCEPT ![seg.node_components[i - 1]] = Append(@, from_index(img, i - 1))]

\* components[i_component] indexes past the end of the list of lists
RegroupPanics(seg) ==
  \E i \in DOMAIN seg.node_components :
     seg.node_components[i] \notin DOMAIN seg.components

\* the dimensions of the images handed to gbis(), empty images included
Images ==
  {d \in [width : 0..MaxArea, height : 0..MaxArea] : d.width * d.height <= MaxArea}

\* the blurred images of the dimensions of img: blur() is the image crate's,
\* it keeps the dimensions and may yield any intensities
Blurred(img) ==
  {[width |-> img.width, height |-> img.height, pixels |-> px] :
     px \in [0..(img.width * img.height - 1) -> 0..MaxPixel]}

\* ---------------------------------------------------------------- state
VARIABLES
  caller,      \* "segment": segment() called on a generic graph; "gbis": by gbis()
  image,       \* gbis: the dimensions of the input image
  view,        \* gbis: the PixelGrid over the blurred image
  graph,       \* the graph of the call: node_bound and the enumerated edges
  k,           \* the scale parameter
  components,  \* the ComponentSlot of every node index
  queue,       \* the sorted edges
  pos,         \* the position in queue of the edge the loop takes next
  out,         \* the Segmentation returned by segment()
  segments,    \* the coordinate lists returned by gbis()
  pc           \* "gbis", "segment", "loop", "done", "regrouped", "panicked"

vars == <<caller, image, view, graph, k, components, queue, pos, out, segments, pc>>

NoImage == [width |-> 0, height |-> 0]

NoView == [width |-> 0, height |-> 0, pixels |-> <<>>]

NoGraph == [node_bound |-> 0, edges |-> <<>>]

NoOut == [node_components |-> <<>>, components |-> <<>>]

\* segment() entered on a generic graph, the slots allocated
InitSegment ==
  /\ caller = "segment"
  /\ image = NoImage
  /\ view = NoView
  /\ graph \in Graphs
  /\ k \in 0..MaxK
  /\ components = InitialSlots(graph.node_bound)
  /\ queue = <<>>
  /\ pos = 1
  /\ out = NoOut
  /\ segments = <<>>
  /\ pc = "segment"

\* the images of a single row
Scanlines == {[width |-> w, height |-> 1] : w \in 1..MaxLine}

\* gbis() entered on an image
InitGbisOn(images, scales) ==
  /\ caller = "gbis"
  /\ image \in images
  /\ view = NoView
  /\ graph = NoGraph
  /\ k \in scales
  /\ components = <<>>
  /\ queue = <<>>
  /\ pos = 1
  /\ out = NoOut
  /\ segments = <<>>
  /\ pc = "gbis"

InitGbis == InitGbisOn(Images, 0..MaxScale)

\* gbis() entered on a scanline with a positive scale parameter
InitScanline == InitGbisOn(Scanlines, 1..MaxLineScale)

\* gbis: blur, wrap in PixelGrid, enter segment(); the edges the grid
\* enumerates are fixed from here on, and building an EdgeRef whose target
\* lies outside the image panics
GbisBlur ==
  /\ pc = "gbis"
  /\ \E b \in Blurred(image) :
       /\ view' = b
       /\ IF \E j \in 1..Len(edge_references(b)) : EdgeRefPanics(b, edge_references(b)[j])
          THEN /\ pc' = "panicked"
               /\ UNCHANGED <<graph, components>>
          ELSE /\ pc' = "segment"
               /\ graph' = PixelGrid(b)
               /\ components' = InitialSlots(node_bound(b))
  /\ UNCHANGED <<caller, image, k, queue, pos, out, segments>>

\* collect the edges and sort them
SortEdges ==
  /\ pc = "segment"
  /\ ~SortPanics(graph.edges)
  /\ queue' = sort_by(graph.edges)
  /\ pos' = 1
  /\ pc' = "loop"
  /\ UNCHANGED <<caller, image, view, graph, k, components, out, segments>>

\* expect("NaN encountered in edge weights")
SortPanic ==
  /\ pc = "segment"
  /\ SortPanics(graph.edges)
  /\ pc' = "panicked"
  /\ UNCHANGED <<caller, image, view, graph, k, components, queue, pos, out, segments>>

InLoop == pc = "loop" /\ pos <= Len(queue) /\ Resolves(components, queue[pos])

\* if c1_idx == c2_idx { continue; }
SkipSameRoot ==
  /\ InLoop
  /\ SameRoot(components, queue[pos])
  /\ components' = LoopBody(components, queue[pos], k)
  /\ pos' = pos + 1
  /\ UNCHANGED <<caller, image, view, graph, k, queue, out, segments, pc>>

\* if *edge.weight() > mint { continue; }
SkipThreshold ==
  /\ InLoop
  /\ ~SameRoot(components, queue[pos])
  /\ OverThreshold(components, queue[pos], k)
  /\ components' = LoopBody(components, queue[pos], k)
  /\ pos' = pos + 1
  /\ UNCHANGED <<caller, image, view, graph, k, queue, out, segments, pc>>

\* merge the components (c2 into c1)
Merge ==
  /\ InLoop
  /\ ~SameRoot(components, queue[pos])
  /\ ~OverThreshold(components, queue[pos], k)
  /\ components' = LoopBody(components, queue[pos], k)
  /\ pos' = pos + 1
  /\ UNCHANGED <<caller, image, view, graph, k, queue, out, segments, pc>>

\* gather the remaining components, re-index them and return
Gather ==
  /\ pc = "loop"
  /\ pos > Len(queue)
  /\ IF GatherPanics(components, graph.node_bound)
     THEN pc' = "panicked" /\ out' = out
     ELSE pc' = "done" /\ out' = Segmentation(components, graph.node_bound)
  /\ UNCHANGED <<caller, image, view, graph, k, components, queue, pos, segments>>

\* gbis: one coordinate list per component
GbisRegroup ==
  /\ pc = "done"
  /\ caller = "gbis"
  /\ IF RegroupPanics(out)
     THEN pc' = "panicked" /\ segments' = segments
     ELSE pc' = "regrouped" /\ segments' = Regroup(view, out, graph.node_bound)
  /\ UNCHANGED <<caller, image, view, graph, k, components, queue, pos, out>>

\* segment() called on a generic graph, or gbis() called on an image
Next ==
  \/ GbisBlur
  \/ SortEdges
  \/ SortPanic
  \/ SkipSameRoot
  \/ SkipThreshold
  \/ Merge
  \/ Gather
  \/ GbisRegroup

Spec == (InitSegment \/ InitGbis) /\ [][Next]_vars

\* gbis() called on an image; the weights of a pixel grid are never NaN
GbisNext ==
  \/ GbisBlur
  \/ SortEdges
  \/ SkipSameRoot
  \/ SkipThreshold
  \/ Merge
  \/ Gather
  \/ GbisRegroup

GbisSpec == InitGbis /\ [][GbisNext]_vars

\* gbis() called on a scanline; its grid is a path, on which the two ends of
\* an edge never resolve to the same root
ScanlineNext ==
  \/ GbisBlur
  \/ SortEdges
  \/ SkipThreshold
  \/ Merge
  \/ Gather
  \/ GbisRegroup

ScanlineSpec == InitScanline /\ [][ScanlineNext]_vars

\* ---------------------------------------------------------------- typing
TypeOK ==
  /\ caller \in {"segment", "gbis"}
  /\ pc \in {"gbis", "segment", "loop", "done", "regrouped", "panicked"}
  /\ k >= 0
  /\ pos \in 1..(Len(queue) + 1)
  /\ DOMAIN components = 0..(graph.node_bound - 1)

\* ---------------------------------------------------------------- properties
Nodes == 0..(graph.node_bound - 1)

\* segment() has returned its Segmentation
Returned == pc \in {"done", "regrouped"}

\* the nodes that resolve to the root r
Members(slots, r) == {i \in DOMAIN slots : get_component(slots, i) = r}

RootsOf(slots) == {i \in DOMAIN slots : slots[i].tag = "Here"}

\* C1: on a graph without NaN weights and with k > 0, segment() does not
\* abort, and the Segmentation it returns has one node_components entry per
\* node index, every entry an index into components, and every index into
\* components the entry of at least one node.
C1_CompletePartition ==
  (~HasNaN(graph.edges) /\ k > 0) =>
     /\ pc # "panicked"
     /\ Returned =>
          LET m == Cardinality(DOMAIN out.components) IN
          /\ DOMAIN out.node_components = Nodes
          /\ DOMAIN out.components = 0..(m - 1)
          /\ \A i \in Nodes : out.node_components[i] \in 0..(m - 1)
          /\ \A c \in 0..(m - 1) : \E i \in Nodes : out.node_components[i] = c

\* a returned segmentation of four or more nodes, some merged and some not,
\* whose surviving roots are not the first slots
C1_Witness ==
  /\ pc = "done"
  /\ ~HasNaN(graph.edges)
  /\ k > 0
  /\ graph.node_bound >= 4
  /\ Cardinality(DOMAIN out.components) \in 2..(graph.node_bound - 1)
  /\ \E i \in Nodes : components[i].tag = "There" /\ i < Cardinality(DOMAIN out.components)

\* C2: a graph that enumerates an edge of NaN weight never gets a
\* Segmentation back from segment().
C2_NaNFailsCall == HasNaN(graph.edges) => ~Returned

\* the root every node resolves to
PartitionOf(slots) == [i \in DOMAIN slots |-> get_component(slots, i)]

\* two labellings of the same nodes: whatever fine joins, coarse joins
Coarser(fine, coarse) ==
  \A i, j \in DOMAIN fine : fine[i] = fine[j] => coarse[i] = coarse[j]

\* C3 as stated: for k < k2 on the same graph and edge order, any two nodes
\* that share a component id in the result for k share one in the result
\* for k2.
C3_Coarsening ==
  (Returned /\ k > 0) =>
     \A k2 \in (k + 1)..MaxLineScale :
        Coarser(out.node_components, segment(graph, k2).node_components)

\* C3 as amended: for k < k2 (both > 0), from every forest the loop reaches
\* with k, the edge it takes next joins with k2 whatever it joins with k: a
\* merge accepted with k is accepted with k2, so two runs on the same graph
\* and edge order first differ on an edge that only k2 merges.
C3_FirstDifference ==
  (pc = "loop" /\ pos <= Len(queue) /\ k > 0) =>
     \A k2 \in (k + 1)..MaxLineScale :
        Coarser(PartitionOf(LoopBody(components, queue[pos], k)),
                PartitionOf(LoopBody(components, queue[pos], k2)))

\* the run with k2 has built the same forest, merged in part, and the next
\* edge is merged with k2 and not with k
C3_Witness ==
  /\ pc = "loop"
  /\ pos <= Len(queue)
  /\ k > 0
  /\ \E i \in Nodes : components[i].tag = "There"
  /\ \E k2 \in (k + 1)..MaxLineScale :
        /\ RunLoop(InitialSlots(graph.node_bound), queue, pos - 1, k2) = components
        /\ LoopBody(components, queue[pos], k) = components
        /\ LoopBody(components, queue[pos], k2) # components

\* the coordinates of the image
Coordinates(img) ==
  {PixelCoordinate(x, y) : x \in 0..(img.width - 1), y \in 0..(img.height - 1)}

\* the places <<list, position>> of the coordinate lists
Places(lists) ==
  {cp \in (DOMAIN lists) \X (1..Cardinality(Nodes)) : cp[2] <= Len(lists[cp[1]])}

\* C4: gbis() returns one coordinate list per surviving component; every
\* coordinate of the image stands at exactly one place of the lists, nothing
\* else does, no list is empty, and every list ascends strictly in the
\* row-major index y * W + x.
C4_RegroupedLists ==
  pc = "regrouped" =>
     /\ DOMAIN segments = DOMAIN out.components
     /\ \A c \in DOMAIN segments : segments[c] # <<>>
     /\ \A cp \in Places(segments) : segments[cp[1]][cp[2]] \in Coordinates(view)
     /\ \A xy \in Coordinates(view) :
           Cardinality({cp \in Places(segments) : segments[cp[1]][cp[2]] = xy}) = 1
     /\ \A c \in DOMAIN segments : \A p \in 1..(Len(segments[c]) - 1) :
           segments[c][p].y * view.width + segments[c][p].x
             < segments[c][p + 1].y * view.width + segments[c][p + 1].x

\* a 2 x 2 image regrouped into two or three lists
C4_Witness ==
  /\ pc = "regrouped"
  /\ view.width = 2
  /\ view.height = 2
  /\ Cardinality(DOMAIN segments) \in 2..3
  /\ \E c \in DOMAIN segments : Len(segments[c]) >= 2

\* the number of roots below r
RootRank(slots, r) == Cardinality({q \in RootsOf(slots) : q < r})

\* C5: the slots still roots after the loop are numbered 0..m-1 in ascending
\* slot order: components[j] is the Component of the j-th smallest root, and
\* node_components[i] is the number of the root node i resolves to.
C5_RootOrder ==
  Returned =>
     /\ DOMAIN out.components = 0..(Cardinality(RootsOf(components)) - 1)
     /\ \A r \in RootsOf(components) :
           out.components[RootRank(components, r)] = components[r].component
     /\ \A i \in Nodes :
           out.node_components[i] = RootRank(components, get_component(components, i))

\* two surviving roots with different Components, and a forwarded slot
\* below one of them
C5_Witness ==
  /\ Returned
  /\ \E r1, r2 \in RootsOf(components) :
        /\ r1 < r2
        /\ components[r1].component # components[r2].component
        /\ \E i \in Nodes : i < r2 /\ components[i].tag = "There"

Uniform(img) ==
  \A i, j \in DOMAIN img.pixels : img.pixels[i] = img.pixels[j]

\* C6: on a W x H image (W, H >= 1) of equal intensities and k > 0, every
\* edge weighs 0, no edge between two different roots exceeds the threshold,
\* and segment() returns the single Component {0, W * H} for all pixels.
C6_UniformImage ==
  (caller = "gbis" /\ view.width >= 1 /\ view.height >= 1 /\ Uniform(view) /\ k > 0) =>
     /\ \A j \in 1..Len(graph.edges) : graph.edges[j].weight = Num(0)
     /\ (InLoop /\ ~SameRoot(components, queue[pos])) =>
           ~OverThreshold(components, queue[pos], k)
     /\ Returned =>
           /\ out.components = [c \in {0} |-> Component(0, view.width * view.height)]
           /\ out.node_components = [i \in Nodes |-> 0]

\* a uniform image of four or more pixels, segmented
C6_Witness ==
  /\ caller = "gbis"
  /\ Returned
  /\ view.width * view.height >= 4
  /\ Uniform(view)
  /\ k > 0

\* C7: on a graph without edges segment() returns one Component {0.0, 1} per
\* node and node_components[i] = i; the 1 x 1 image and the empty image are
\* such graphs.
C7_NoEdges ==
  /\ (caller = "gbis" /\ pc # "gbis" /\ view.width * view.height <= 1) =>
        graph.edges = <<>>
  /\ (Returned /\ graph.edges = <<>>) =>
        /\ out.components = [i \in Nodes |-> Component(0, 1)]
        /\ out.node_components = [i \in Nodes |-> i]

\* a graph of two or more nodes and no edge, segmented
C7_Witness ==
  /\ Returned
  /\ graph.edges = <<>>
  /\ graph.node_bound >= 2

NonNegative(es) == \A j \in 1..Len(es) : ~es[j].weight.nan /\ es[j].weight.val >= 0

IsZero(e) == ~e.weight.nan /\ e.weight.val = 0

\* the nodes joined to a node of S by a path of at most fuel zero-weight
\* edges of es, taken in either direction
RECURSIVE ZeroReach(_, _, _)
ZeroReach(es, S, fuel) ==
  IF fuel = 0 THEN S
  ELSE ZeroReach(es,
         S \cup {es[j].target : j \in {a \in 1..Len(es) : IsZero(es[a]) /\ es[a].source \in S}}
           \cup {es[j].source : j \in {a \in 1..Len(es) : IsZero(es[a]) /\ es[a].target \in S}},
         fuel - 1)

\* C8: with k = 0 and weights that are neither NaN nor negative, an edge
\* between two different roots is merged if and only if it weighs exactly 0;
\* every root keeps int_diff = 0, and two nodes get the same component id
\* exactly when a path of zero-weight edges joins them.
C8_ZeroK ==
  (k = 0 /\ NonNegative(graph.edges)) =>
     /\ (InLoop /\ ~SameRoot(components, queue[pos])) =>
           (LoopBody(components, queue[pos], k) # components <=> IsZero(queue[pos]))
     /\ \A r \in RootsOf(components) : components[r].component.int_diff = 0
     /\ Returned =>
           /\ \A c \in DOMAIN out.components : out.components[c].int_diff = 0
           /\ \A i, j \in Nodes :
                 out.node_components[i] = out.node_components[j]
                    <=> j \in ZeroReach(graph.edges, {i}, graph.node_bound)

\* k = 0, a zero-weight edge merged and a positive edge between two
\* different roots refused
C8_Witness ==
  /\ k = 0
  /\ NonNegative(graph.edges)
  /\ InLoop
  /\ \E i \in Nodes : components[i].tag = "There"
  /\ ~SameRoot(components, queue[pos])
  /\ queue[pos].weight.val > 0

\* ---- the variants of the merge loop
Swap(e) == [source |-> e.target, target |-> e.source, weight |-> e.weight]

RootSize(slots, i) == slots[get_component(slots, i)].component.node_count

\* the slots on the forward chain that starts at idx
RECURSIVE Chain(_, _, _)
Chain(slots, idx, fuel) ==
  IF idx \notin DOMAIN slots \/ fuel = 0 THEN {}
  ELSE IF slots[idx].tag = "Here" THEN {idx}
  ELSE {idx} \cup Chain(slots, slots[idx].idx, fuel - 1)

\* a lookup of idx that compresses the path: every slot passed points at the root
Compress(slots, idx) ==
  LET r == get_component(slots, idx) IN
  [i \in DOMAIN slots |->
     IF i \in Chain(slots, idx, Cardinality(DOMAIN slots)) /\ i # r
     THEN There(r) ELSE slots[i]]

Variants == {"store_at_v", "by_size", "compress"}

\* one iteration of the loop of a variant: the merged Component stored at
\* root(v); at the root of the larger component; at root(u) after lookups
\* that compress
VariantBody(variant, slots, e, kk) ==
  CASE variant = "store_at_v" -> LoopBody(slots, Swap(e), kk)
    [] variant = "by_size" ->
         IF RootSize(slots, e.source) >= RootSize(slots, e.target)
         THEN LoopBody(slots, e, kk)
         ELSE LoopBody(slots, Swap(e), kk)
    [] variant = "compress" ->
         LoopBody(Compress(Compress(slots, e.source), e.target), e, kk)

RECURSIVE RunVariant(_, _, _, _, _)
RunVariant(variant, slots, q, j, kk) ==
  IF j = 0 THEN slots
  ELSE VariantBody(variant, RunVariant(variant, slots, q, j - 1, kk), q[j], kk)

\* the node groups of a forest, each with the Component of its root
Groups(slots) ==
  {[nodes |-> Members(slots, r), component |-> slots[r].component] : r \in RootsOf(slots)}

\* C9: after any number of edges, each variant of the merge loop has formed
\* the same node groups with the same {int_diff, node_count} as the loop of
\* segment(), which always stores at root(u).
C9_AbsorbingSide ==
  pc \in {"loop", "done"} =>
     \A v \in Variants :
        Groups(RunVariant(v, InitialSlots(graph.node_bound), queue, pos - 1, k))
          = Groups(components)

\* every variant has built a forest other than that of segment(), with a
\* group of three or more nodes beside another group
C9_Witness ==
  /\ pc = "done"
  /\ Cardinality(RootsOf(components)) >= 2
  /\ \E r \in RootsOf(components) : components[r].component.node_count >= 3
  /\ \A v \in Variants :
        RunVariant(v, InitialSlots(graph.node_bound), queue, pos - 1, k) # components

\* ---- the edges of the pixel grid
NeighborRank(neighbor) ==
  CASE neighbor = "Right"     -> 0
    [] neighbor = "Down"      -> 1
    [] neighbor = "DownRight" -> 2
    [] neighbor = "DownLeft"  -> 3

\* the place of an edge in the order: pixels row by row, and within a pixel
\* Right, Down, DownRight, DownLeft
EdgeKey(img, e) == (e.base.y * img.width + e.base.x) * 4 + NeighborRank(e.neighbor)

\* two different pixels that touch by a side or a corner
Adjacent(p, q) ==
  /\ p # q
  /\ AbsDiff(p.x, q.x) <= 1
  /\ AbsDiff(p.y, q.y) <= 1

StablePlace(es, j) ==
  Cardinality({i \in 1..Len(es) : es[i].weight.val < es[j].weight.val})
    + Cardinality({i \in 1..j : es[i].weight.val = es[j].weight.val})

\* C11: once sorted, the queue holds the enumerated edges, each at the place
\* a stable sort gives it: weights never decrease along the queue and equal
\* weights keep their enumeration order; the loop has taken exactly the first
\* pos - 1 edges of the queue, each once and in that order, and segment()
\* returns only when all are taken.
C11_StableOrder ==
  pc \in {"loop", "done", "regrouped"} =>
     /\ Len(queue) = Len(graph.edges)
     /\ \A j \in 1..Len(graph.edges) :
           queue[StablePlace(graph.edges, j)] = graph.edges[j]
     /\ \A j \in 1..(Len(queue) - 1) :
           queue[j].weight.val <= queue[j + 1].weight.val
     /\ pos \in 1..(Len(queue) + 1)
     /\ components = RunLoop(InitialSlots(graph.node_bound), queue, pos - 1, k)
     /\ Returned => pos = Len(queue) + 1

\* a queue of three or more edges, taken to the end, that the sort has
\* reordered and that holds two different edges of one weight
C11_Witness ==
  /\ pc = "done"
  /\ Len(queue) >= 3
  /\ queue # graph.edges
  /\ \E i, j \in 1..Len(queue) :
        /\ i < j
        /\ queue[i] # queue[j]
        /\ queue[i].weight = queue[j].weight

\* ---- the merges performed
\* the j-th edge of q changed the forest, that is, a merge was performed on it
MergedAt(q, j, n, kk) ==
  RunLoop(InitialSlots(n), q, j, kk) # RunLoop(InitialSlots(n), q, j - 1, kk)

\* the places among the first upto edges of q on which a merge was performed
Performed(q, upto, n, kk) == {j \in 1..upto : MergedAt(q, j, n, kk)}

\* the nodes joined to a node of S by a path of at most fuel edges of q at
\* the places J, taken in either direction
RECURSIVE JoinReach(_, _, _, _)
JoinReach(q, J, S, fuel) ==
  IF fuel = 0 THEN S
  ELSE JoinReach(q, J,
         S \cup {q[j].target : j \in {a \in J : q[a].source \in S}}
           \cup {q[j].source : j \in {a \in J : q[a].target \in S}},
         fuel - 1)

\* C12: two nodes resolve to the same root, and in the result have the same
\* component id, if and only if a path of edges on which a merge was
\* performed joins them.
C12_MaximalSegments ==
  pc \in {"loop", "done", "regrouped"} =>
     LET J == Performed(queue, pos - 1, graph.node_bound, k) IN
     \A i \in Nodes :
        LET R == JoinReach(queue, J, {i}, graph.node_bound) IN
        \A j \in Nodes :
           /\ get_component(components, i) = get_component(components, j) <=> j \in R
           /\ Returned => (out.node_components[i] = out.node_components[j] <=> j \in R)

\* a result of two or more segments after two or more merges, with an edge
\* refused between two segments and an edge skipped inside one
C12_Witness ==
  /\ pc = "done"
  /\ Cardinality(Performed(queue, Len(queue), graph.node_bound, k)) >= 2
  /\ \E a, b \in 1..Len(queue) :
        /\ ~MergedAt(queue, a, graph.node_bound, k)
        /\ out.node_components[queue[a].source] # out.node_components[queue[a].target]
        /\ ~MergedAt(queue, b, graph.node_bound, k)
        /\ out.node_components[queue[b].source] = out.node_components[queue[b].target]

\* ---- the effect of one step of the loop
\* the step from a loop state to a loop state, written as C13 gives it: u and
\* v are the ends of the edge, w its weight; w > min(a, b) is w > a or w > b,
\* and the max of the merged Component is over the numbers among its three
\* operands (a NaN weight is no number)
StepFrame ==
  (pc = "loop" /\ pc' = "loop") =>
     LET e == queue[pos]
         ru == get_component(components, e.source)
         rv == get_component(components, e.target)
         Cu == components[ru].component
         Cv == components[rv].component
         w == e.weight
         OverMInt ==
           /\ ~w.nan
           /\ \/ w.val * Cu.node_count > Cu.int_diff * Cu.node_count + k
              \/ w.val * Cv.node_count > Cv.int_diff * Cv.node_count + k
         Largest ==
           LET d == IF Cu.int_diff >= Cv.int_diff THEN Cu.int_diff ELSE Cv.int_diff
           IN IF ~w.nan /\ w.val > d THEN w.val ELSE d
     IN /\ pos' = pos + 1
        /\ queue' = queue
        /\ DOMAIN components' = DOMAIN components
        /\ IF ru = rv \/ OverMInt
           THEN components' = components
           ELSE /\ \A i \in DOMAIN components :
                      components'[i] # components[i] <=> i \in {ru, rv}
                /\ components'[ru] =
                      Here(Component(Largest, Cu.node_count + Cv.node_count))
                /\ components'[rv] = There(ru)
        /\ (ru # rv /\ Cu.node_count = 1 /\ Cv.node_count = 1
              /\ Cu.int_diff = 0 /\ Cv.int_diff = 0 /\ ~w.nan /\ w.val > k) =>
                components' = components

\* the return of segment() on two nodes joined by one edge with w > k
TwoSingletons ==
  (pc = "loop" /\ pc' = "done" /\ graph.node_bound = 2 /\ Len(queue) = 1
     /\ ~queue[1].weight.nan /\ queue[1].weight.val > k) =>
        /\ out'.components = [c \in 0..1 |-> Component(0, 1)]
        /\ out'.node_components = [i \in 0..1 |-> i]

\* C13: a step of the loop on the edge (u, v, w) leaves every slot as it is
\* when u and v have the same root or w > MInt; otherwise it changes exactly
\* the slots of root(u) and root(v): root(u) holds the merged Component
\* {max of the int_diffs and w, sum of the node_counts}, root(v) refers
\* forward to root(u).  Two singleton roots joined by an edge with w > k are
\* not merged, and a graph of just these two nodes comes back as two
\* singleton components.
C13_StepFrame == [][StepFrame /\ TwoSingletons]_vars

\* the loop has merged into a root of three or more nodes, refused an edge
\* between two roots and skipped an edge inside one component
C13_Witness ==
  /\ pc = "loop"
  /\ \E r \in RootsOf(components) : components[r].component.node_count >= 3
  /\ \E b, c \in 1..(pos - 1) :
        LET before(j) == RunLoop(InitialSlots(graph.node_bound), queue, j - 1, k) IN
        /\ ~MergedAt(queue, b, graph.node_bound, k)
        /\ ~SameRoot(before(b), queue[b])
        /\ ~MergedAt(queue, c, graph.node_bound, k)
        /\ SameRoot(before(c), queue[c])

\* ---- the forest of forward references
\* from every slot the forward references lead to a root inside the array
Terminates(slots) ==
  \A i \in DOMAIN slots :
     /\ get_component(slots, i) \in DOMAIN slots
     /\ slots[get_component(slots, i)].tag = "Here"

\* what a step may do to the forward references
ForestStep ==
  /\ Terminates(components)
  /\ Terminates(components')
  /\ \A i \in DOMAIN components \cap DOMAIN components' :
        /\ components[i].tag = "There" => components'[i].tag = "There"
        /\ (components[i].tag = "Here" /\ components'[i].tag = "There") =>
              /\ components'[i].idx \in DOMAIN components
              /\ components'[i].idx # i
              /\ components[components'[i].idx].tag = "Here"

\* C14: in every state of segment() the forward references form a forest
\* without cycles: from every slot index get_component reaches a root inside
\* the array; a forward reference written by a merge targets a slot that was
\* a root when it was written, and a slot that refers forward never becomes a
\* root again.
C14_Forest == [][ForestStep]_vars

\* a forward reference that leads to another forward reference
C14_Witness ==
  /\ pc = "loop"
  /\ \E i \in Nodes :
        /\ components[i].tag = "There"
        /\ components[components[i].idx].tag = "There"

\* ---- the node counts
\* the sum of the node_count of the roots among the slots from i on
RECURSIVE SumCounts(_, _)
SumCounts(slots, i) ==
  IF i \notin DOMAIN slots THEN 0
  ELSE (IF slots[i].tag = "Here" THEN slots[i].component.node_count ELSE 0)
         + SumCounts(slots, i + 1)

\* C15: in every state of segment() the node_count of a root is the number
\* of node indices that resolve to it; the node_counts of the roots sum to n,
\* there are n roots less one for every merge performed, and every returned
\* Component counts at least one node.
C15_NodeCounts ==
  /\ \A r \in RootsOf(components) :
        components[r].component.node_count = Cardinality(Members(components, r))
  /\ SumCounts(components, 0) = Cardinality(DOMAIN components)
  /\ pc \in {"segment", "loop", "done", "regrouped"} =>
        /\ DOMAIN components = Nodes
        /\ Cardinality(RootsOf(components))
              = graph.node_bound
                  - Cardinality(Performed(queue, pos - 1, graph.node_bound, k))
  /\ Returned =>
        /\ \A c \in DOMAIN out.components : out.components[c].node_count >= 1
        /\ \A c \in DOMAIN out.components :
              out.components[c].node_count
                = Cardinality({i \in Nodes : out.node_components[i] = c})

\* after two or more merges, a root of three or more nodes beside another root
C15_Witness ==
  /\ pc \in {"loop", "done"}
  /\ Cardinality(Performed(queue, pos - 1, graph.node_bound, k)) >= 2
  /\ Cardinality(RootsOf(components)) >= 2
  /\ \E r \in RootsOf(components) : components[r].component.node_count >= 3

\* ---- the internal differences
\* the largest of a set of weights, 0 for none
Largest(S) == IF S = {} THEN 0 ELSE CHOOSE m \in S : \A x \in S : x <= m

\* the weights of the merged edges inside the component of the root r
MergedInside(r) ==
  {queue[j].weight.val :
     j \in {a \in Performed(queue, pos - 1, graph.node_bound, k) :
              get_component(components, queue[a].source) = r}}

\* the int_diff of every root is the largest weight merged inside it
InternalDiffs ==
  \A r \in RootsOf(components) :
     components[r].component.int_diff = Largest(MergedInside(r))

\* a merge stores the weight of its edge; no root loses int_diff
InternalDiffStep ==
  (pc = "loop" /\ pc' = "loop") =>
     /\ \A i \in DOMAIN components :
           (components[i].tag = "Here" /\ components'[i].tag = "Here") =>
              components'[i].component.int_diff >= components[i].component.int_diff
     /\ components' # components =>
           components'[get_component(components', queue[pos].source)].component.int_diff
             = queue[pos].weight.val

\* C16: on weights that are neither NaN nor negative, in every state of
\* segment() the int_diff of a root is the largest weight among the edges
\* merged inside its component, 0.0 for a component never merged; every merge
\* sets the int_diff of the merged root to the weight of its edge, and the
\* int_diff of a root never decreases.
C16_InternalDiff ==
  [][NonNegative(graph.edges) => (InternalDiffs /\ InternalDiffStep)]_vars

\* a root of three or more nodes, merged on edges of two different weights,
\* beside a root that was never merged
C16_Witness ==
  /\ pc = "loop"
  /\ NonNegative(graph.edges)
  /\ \E r \in RootsOf(components) :
        /\ components[r].component.node_count >= 3
        /\ Cardinality(MergedInside(r)) >= 2
  /\ \E r \in RootsOf(components) : components[r].component.node_count = 1

====
